---- MODULE Spec2Model ----
(***************************************************************************)
(* VouchsafeClient (src/unnamed/part_001): the bearer-token cache          *)
(* (getAccessToken), the header builder (authHeaders) and the             *)
(* retry-once-on-401 executor (withErrorHandling) every public method     *)
(* goes through.                                                           *)
(*                                                                         *)
(* JavaScript runs one continuation at a time, so one action is the code   *)
(* that runs between two network suspensions of one call: from the public  *)
(* method's entry to the first network request, and from a network         *)
(* response to the next request or to the call's end.  The continuations   *)
(* in between (the awaits inside authHeaders and attempt) touch only the   *)
(* call's locals.                                                          *)
(***************************************************************************)
EXTENDS Integers, Sequences, FiniteSets, TLC

VARIABLES
    now,          \* the wall clock read by new Date(), in milliseconds
    token,        \* token[i]: this.token of instance i
    tokenExpiry,  \* tokenExpiry[i]: this.tokenExpiry of instance i
    calls,        \* calls[c]: the locals and the observation record of call c
    issued,       \* issued[k]: the token the server honours for credentials k
    gcall,        \* the public call in progress on the client generated with
                  \* openapi-generator (part_002), which uses instance 1's fields
    seq           \* seq[i]: what has happened on instance i since construction

vars == <<now, token, tokenExpiry, calls, issued, gcall, seq>>

-----------------------------------------------------------------------------
(* Bounds *)

\* The clock runs over minutes 0 .. MaxNow.
MaxNow == 4
\* Public method calls made on one instance.
MaxCalls == 2
MaxNowConc == 1
\* Public method calls made on each of two instances in use side by side.
MaxCallsTwo == 1
\* Public method calls made on each of two instances that share a server.
MaxCallsServer == 2
\* Public method calls made on the generated client.
MaxGeneratedCalls == 2

-----------------------------------------------------------------------------
(* Values *)

Instances == {1, 2}
CallIds == {1, 2}

\* JavaScript undefined, for a string-valued field or variable.
Undefined == "undefined"

MinuteMs == 60 * 1000
bufferMs == 5 * 60 * 1000

Clock == {m * MinuteMs : m \in 0 .. MaxNow}

\* Date values: an unset field, a valid Date, or an Invalid Date.
UndefinedDate == [kind |-> "undefined", ms |-> 0]
InvalidDate == [kind |-> "invalid", ms |-> 0]
ValidDate(t) == [kind |-> "date", ms |-> t]

\* The value getTime() gives for an Invalid Date; every comparison with it
\* is false.  Real millisecond values here are multiples of MinuteMs.
NaN == 0 - 1

\* Date.prototype.getTime
getTime(d) == IF d.kind = "date" THEN d.ms ELSE NaN

\* a - b and a < b on JavaScript numbers
NumSub(a, b) == IF a = NaN \/ b = NaN THEN NaN ELSE a - b
NumLt(a, b) == a # NaN /\ b # NaN /\ a < b

\* JavaScript truthiness of a string-or-undefined value and of a Date field
Truthy(s) == s \notin {Undefined, ""}
DateTruthy(d) == d.kind # "undefined"

\* The expires_at strings a response may carry: an ISO timestamp, a string
\* that is no timestamp, or no field at all.
ExpiryMinutes == {6, 8}
IsoString(t) == [text |-> "iso", ms |-> t]
NotADateString == [text |-> "garbage", ms |-> 0]
MissingString == [text |-> "missing", ms |-> 0]
ExpiresAtValues ==
    {MissingString, NotADateString} \cup {IsoString(m * MinuteMs) : m \in ExpiryMinutes}

\* new Date(expires_at), applied to a present string
NewDate(s) == IF s.text = "iso" THEN ValidDate(s.ms) ELSE InvalidDate

StringTruthy(s) == s.text # "missing"

TokenValues == {"tokA", "tokB"}

\* The options given to the constructor, per instance.
options == [i \in Instances |-> [client_id |-> "id", client_secret |-> "s1"]]

\* Response bodies of the endpoint functions.
NullData == [null |-> TRUE]
Null == "null"
Bodies == {NullData, [id |-> "p1"], [id |-> "p2", message |-> "not found"],
           [id |-> "p3", message |-> Null]}

AuthStatuses == {200, 201, 401}
FnStatuses == {200, 201, 401, 404}

AuthData == [access_token : TokenValues \cup {Undefined}, expires_at : ExpiresAtValues]

\* A collaborator either resolves with {status, data} or rejects with a
\* transport-level error.
TransportError == [class |-> "TypeError", message |-> "fetch failed"]
Rejected == [kind |-> "rejected", error |-> TransportError]
Resolved(s, d) == [kind |-> "resolved", status |-> s, data |-> d]

AuthOutcomes == {Resolved(s, d) : s \in AuthStatuses, d \in AuthData} \cup {Rejected}
FnOutcomes == {Resolved(s, d) : s \in FnStatuses, d \in Bodies} \cup {Rejected}

\* The client credentials the server knows.
Credentials == {options[i] : i \in Instances}

NoResponse == [kind |-> "none"]
NoRequest == [kind |-> "none"]

-----------------------------------------------------------------------------
(* The code *)

VouchsafeApiError(statusCode, responseBody, message) ==
    [class |-> "VouchsafeApiError", name |-> "VouchsafeApiError",
     statusCode |-> statusCode, responseBody |-> responseBody, message |-> message]

\* Mutants of CacheValid: the comparison turned round, the boundary counted
\* as valid, and the buffer taken sixty times too wide.
CacheValidReversed(tok, exp, t) ==
    /\ Truthy(tok)
    /\ DateTruthy(exp)
    /\ NumLt(NumSub(getTime(exp), bufferMs), t)

CacheValidInclusive(tok, exp, t) ==
    /\ Truthy(tok)
    /\ DateTruthy(exp)
    /\ NumLt(t, NumSub(getTime(exp), bufferMs - 1))

CacheValidWideBuffer(tok, exp, t) ==
    /\ Truthy(tok)
    /\ DateTruthy(exp)
    /\ NumLt(t, NumSub(getTime(exp), bufferMs * 60))

\* getAccessToken, lines 54-58: the cached token is used
CacheValid(tok, exp, t) ==
    /\ Truthy(tok)
    /\ DateTruthy(exp)
    /\ NumLt(t, NumSub(getTime(exp), bufferMs))

\* getAccessToken, lines 62-65
AuthBody(i) ==
    [client_id |-> options[i].client_id, client_secret |-> options[i].client_secret]

\* Mutants of GetAccessTokenResume: the cache cleared when authenticate
\* fails, and the token stored before the fields are checked.
GetAccessTokenResumeClearing(tok, exp, r) ==
    IF r.kind = "rejected"
    THEN [tok |-> tok, exp |-> exp, ok |-> FALSE, value |-> Undefined, error |-> r.error]
    ELSE IF r.status # 201
    THEN [tok |-> Undefined, exp |-> UndefinedDate, ok |-> FALSE, value |-> Undefined,
          error |-> VouchsafeApiError(r.status, r.data, "Authentication failed")]
    ELSE IF ~Truthy(r.data.access_token) \/ ~StringTruthy(r.data.expires_at)
    THEN [tok |-> tok, exp |-> exp, ok |-> FALSE, value |-> Undefined,
          error |-> VouchsafeApiError(201, r.data,
                        "Authentication response missing token or expiry")]
    ELSE [tok |-> r.data.access_token, exp |-> NewDate(r.data.expires_at),
          ok |-> TRUE, value |-> r.data.access_token, error |-> TransportError]

\* Mutant of GetAccessTokenResume: a response that finds a token already
\* cached does not replace it.
GetAccessTokenResumeFirstWins(tok, exp, r) ==
    IF r.kind = "rejected"
    THEN [tok |-> tok, exp |-> exp, ok |-> FALSE, value |-> Undefined, error |-> r.error]
    ELSE IF r.status # 201
    THEN [tok |-> tok, exp |-> exp, ok |-> FALSE, value |-> Undefined,
          error |-> VouchsafeApiError(r.status, r.data, "Authentication failed")]
    ELSE IF ~Truthy(r.data.access_token) \/ ~StringTruthy(r.data.expires_at)
    THEN [tok |-> tok, exp |-> exp, ok |-> FALSE, value |-> Undefined,
          error |-> VouchsafeApiError(201, r.data,
                        "Authentication response missing token or expiry")]
    ELSE IF Truthy(tok)
    THEN [tok |-> tok, exp |-> exp, ok |-> TRUE, value |-> tok, error |-> TransportError]
    ELSE [tok |-> r.data.access_token, exp |-> NewDate(r.data.expires_at),
          ok |-> TRUE, value |-> r.data.access_token, error |-> TransportError]

GetAccessTokenResumePartial(tok, exp, r) ==
    IF r.kind = "rejected"
    THEN [tok |-> tok, exp |-> exp, ok |-> FALSE, value |-> Undefined, error |-> r.error]
    ELSE IF r.status # 201
    THEN [tok |-> tok, exp |-> exp, ok |-> FALSE, value |-> Undefined,
          error |-> VouchsafeApiError(r.status, r.data, "Authentication failed")]
    ELSE IF ~Truthy(r.data.access_token) \/ ~StringTruthy(r.data.expires_at)
    THEN [tok |-> r.data.access_token, exp |-> exp, ok |-> FALSE, value |-> Undefined,
          error |-> VouchsafeApiError(201, r.data,
                        "Authentication response missing token or expiry")]
    ELSE [tok |-> r.data.access_token, exp |-> NewDate(r.data.expires_at),
          ok |-> TRUE, value |-> r.data.access_token, error |-> TransportError]

\* getAccessToken after the await of line 67: given the cache and the
\* outcome of authenticate, the cache it leaves and how it ends.
GetAccessTokenResume(tok, exp, r) ==
    IF r.kind = "rejected"
    THEN [tok |-> tok, exp |-> exp, ok |-> FALSE, value |-> Undefined, error |-> r.error]
    ELSE IF r.status # 201
    THEN [tok |-> tok, exp |-> exp, ok |-> FALSE, value |-> Undefined,
          error |-> VouchsafeApiError(r.status, r.data, "Authentication failed")]
    ELSE IF ~Truthy(r.data.access_token) \/ ~StringTruthy(r.data.expires_at)
    THEN [tok |-> tok, exp |-> exp, ok |-> FALSE, value |-> Undefined,
          error |-> VouchsafeApiError(201, r.data,
                        "Authentication response missing token or expiry")]
    ELSE [tok |-> r.data.access_token, exp |-> NewDate(r.data.expires_at),
          ok |-> TRUE, value |-> r.data.access_token, error |-> TransportError]

\* authHeaders, line 86
authHeaders(tok) == [headers |-> [Authorization |-> "Bearer " \o tok]]

\* Mutants of ErrorMessage: the body's message is never used; a null message
\* is used as it is.
ErrorMessageGeneric(r) == "Request failed with status " \o ToString(r.status)

ErrorMessageKeepsNull(r) ==
    IF r.data # NullData /\ "message" \in DOMAIN r.data
    THEN r.data.message
    ELSE "Request failed with status " \o ToString(r.status)

\* attempt, line 106: (response.data as any)?.message ?? `Request failed ...`
\* (?. yields undefined on a null body; ?? falls back on null and undefined)
ErrorMessage(r) ==
    IF r.data # NullData /\ "message" \in DOMAIN r.data /\ r.data.message # Null
    THEN r.data.message
    ELSE "Request failed with status " \o ToString(r.status)

\* Mutant of IsSuccess: 201 is not taken for a success.
IsSuccessOnly200(status) == status = 200

\* attempt, lines 99-107, after the await of line 98
IsSuccess(status) == status = 200 \/ status = 201

\* Mutant of AttemptError: a rejection is wrapped in a VouchsafeApiError.
AttemptErrorWrapsRejection(r) ==
    IF r.kind = "rejected"
    THEN VouchsafeApiError(0, NullData, r.error.message)
    ELSE VouchsafeApiError(r.status, r.data, ErrorMessage(r))

\* Mutant of AttemptError: the response body is not carried by the error.
AttemptErrorNoBody(r) ==
    IF r.kind = "rejected"
    THEN r.error
    ELSE VouchsafeApiError(r.status, NullData, ErrorMessage(r))

AttemptError(r) ==
    IF r.kind = "rejected"
    THEN r.error
    ELSE VouchsafeApiError(r.status, r.data, ErrorMessage(r))

\* Mutants of ShouldRetry: the retried attempt is retried too, and every
\* VouchsafeApiError is retried whatever its status.
ShouldRetryAnyAttempt(attempt, err) ==
    /\ err.class = "VouchsafeApiError"
    /\ err.statusCode = 401

ShouldRetryAnyStatus(attempt, err) ==
    /\ attempt = 1
    /\ err.class = "VouchsafeApiError"

\* withErrorHandling, line 113
ShouldRetry(attempt, err) ==
    /\ attempt = 1
    /\ err.class = "VouchsafeApiError"
    /\ err.statusCode = 401

-----------------------------------------------------------------------------
(* State *)

Pending == [kind |-> "pending"]
Returned(v) == [kind |-> "return", value |-> v]
Thrown(e) == [kind |-> "throw", error |-> e]

NoCache == [tok |-> Undefined, exp |-> UndefinedDate]
NoError == [class |-> "none"]

IdleCall ==
    [pc |-> "idle",          \* idle, authWait, fnWait, done
     inst |-> 1,             \* the instance the method is called on
     attempt |-> 0,          \* 1: the attempt inside try; 2: the one in catch
     nAuth |-> 0,            \* authenticate calls issued by this call
     nFn |-> 0,              \* invocations of the wrapped endpoint function
     nInval |-> 0,           \* executions of lines 115-116
     nGat |-> 0,             \* invocations of getAccessToken
     saw |-> [tok |-> Undefined, exp |-> UndefinedDate, now |-> 0, nAuth |-> 0],
                             \* cache, clock and nAuth at the latest
                             \* getAccessToken entry
     gatPre |-> NoCache,     \* cache just before the latest getAccessToken end
     gatEnd |-> NoCache,     \* cache just after the latest getAccessToken end
     gatOk |-> FALSE,        \* the latest getAccessToken returned (did not throw)
     gat |-> Undefined,      \* the token the latest getAccessToken returned
     gatErr |-> NoError,     \* the error the latest getAccessToken threw
     authReq |-> NoRequest,  \* body of the latest authenticate request
     authResp |-> NoResponse,\* outcome of the latest authenticate request
     fnReq |-> NoRequest,    \* RequestInit of the latest endpoint invocation
     fnReq1 |-> NoRequest,   \* RequestInit of the first endpoint invocation
     fn1 |-> NoResponse,     \* outcome of the first endpoint invocation
     fn1Attempt |-> 0,       \* the attempt that made the first invocation
     fnOut |-> NoResponse,   \* outcome of the latest endpoint invocation
     fnLast |-> NoResponse,  \* the last response an invocation resolved with
     at1 |-> [nAuth |-> 0, nFn |-> 0, nInval |-> 0],
                             \* the counters when fn1 arrived
     atLast |-> [nAuth |-> 0, nFn |-> 0, nInval |-> 0],
                             \* the counters when fnLast arrived
     result |-> Pending]

\* The client generated with openapi-generator (part_002).  An endpoint
\* operation of a generated Api class resolves with the parsed body, or
\* rejects: with a ResponseError that holds the Response when the status is
\* no success, with another error when the request could not be made.
Unparsable == [unparsable |-> TRUE]
EmptyObject == [x \in {} |-> x]
ResponseError(status, statusText, body) ==
    [class |-> "ResponseError", name |-> "ResponseError",
     status |-> status, statusText |-> statusText, body |-> body]
OperationRejected == [kind |-> "rejected", error |-> TransportError]
OperationFailed(status, statusText, body) ==
    [kind |-> "rejected", error |-> ResponseError(status, statusText, body)]
OperationResolved(v) == [kind |-> "resolved", value |-> v]

OperationOutcomes ==
    {OperationResolved([id |-> "p1"]),
     OperationFailed(401, "Unauthorized", [message |-> "token expired"]),
     OperationFailed(404, "Not Found", [message |-> "not found"]),
     OperationFailed(500, "Internal Server Error", Unparsable),
     OperationRejected}
AuthenticateOutcomes ==
    {OperationResolved([access_token |-> "tokA", expires_at |-> IsoString(6 * MinuteMs)]),
     OperationResolved([access_token |-> "tokB", expires_at |-> IsoString(8 * MinuteMs)]),
     OperationFailed(401, "Unauthorized", [message |-> "bad credentials"]),
     OperationRejected}

\* The public methods: one wrapped in withErrorHandling once, and listFlows,
\* wrapped twice (getFlow is wrapped like listFlows).
WrapDepth == [getVerification |-> 1, listFlows |-> 2]
Methods == DOMAIN WrapDepth

IdleGeneratedCall ==
    [pc |-> "idle",        \* idle, hookWait, opWait, reauthWait, done
     method |-> "getVerification",
     level |-> 0,          \* the withErrorHandling activation that made the
                           \* latest call of its fn: 1 outermost
     phase |-> [l \in 1..2 |-> "none"],
                           \* per activation: none, try (fn called at line
                           \* 102), catch (line 109 reached)
     nOp |-> 0,            \* invocations of the endpoint operation
     nAuth |-> 0,          \* authenticate calls issued
     nInval |-> 0,         \* executions of lines 107-108
     nReauth |-> 0,        \* executions of line 109
     bearer |-> Undefined, \* the token given to the latest invocation
     opOut |-> NoResponse, \* outcome of the latest invocation
     authOut |-> NoResponse,
                           \* outcome of the latest authenticate call
     opAfter401 |-> FALSE, \* the latest invocation followed a 401 of this call
     n |-> 0,              \* public calls made so far
     result |-> Pending]

NewSeq == [calls |-> 0, auth |-> 0, allReturned |-> TRUE, allInWindow |-> TRUE,
           no401 |-> TRUE,
           lastGood |-> [by |-> 0, resp |-> NoResponse]]
                             \* the latest accepted authenticate response
                             \* of the instance and the call it answered

Init ==
    /\ now = 0
    /\ token = [i \in Instances |-> Undefined]
    /\ tokenExpiry = [i \in Instances |-> UndefinedDate]
    /\ calls = [c \in CallIds |-> IdleCall]
    /\ seq = [i \in Instances |-> NewSeq]
    /\ issued = [k \in Credentials |-> Undefined]
    /\ gcall = IdleGeneratedCall

-----------------------------------------------------------------------------
(* Operations *)

\* Mutant of InvokeFn: the RequestInit built for the first invocation is
\* used again for the retry.
InvokeFnStale(cr, tok) ==
    [cr EXCEPT !.pc = "fnWait",
               !.fnReq = IF cr.nFn = 0 THEN authHeaders(tok) ELSE cr.fnReq1,
               !.fnOut = NoResponse,
               !.fnReq1 = IF cr.nFn = 0 THEN authHeaders(tok) ELSE @,
               !.fn1Attempt = IF cr.nFn = 0 THEN cr.attempt ELSE @,
               !.nFn = @ + 1]

\* attempt, line 97: the wrapped endpoint function is invoked with the
\* RequestInit authHeaders built from the token getAccessToken returned.
InvokeFn(cr, tok) ==
    [cr EXCEPT !.pc = "fnWait",
               !.fnReq = authHeaders(tok),
               !.fnOut = NoResponse,
               !.fnReq1 = IF cr.nFn = 0 THEN authHeaders(tok) ELSE @,
               !.fn1Attempt = IF cr.nFn = 0 THEN cr.attempt ELSE @,
               !.nFn = @ + 1]

\* attempt, line 96, down to the first suspension: getAccessToken is entered
\* with the cache (tok, exp); it either returns the cached token, and the
\* endpoint function is invoked, or issues the authenticate request.
BeginAttempt(cr, i, n, tok, exp) ==
    LET entered == [cr EXCEPT !.attempt = n,
                              !.nGat = @ + 1,
                              !.saw = [tok |-> tok, exp |-> exp, now |-> now,
                                       nAuth |-> cr.nAuth],
                              !.gatErr = NoError]
    IN  IF CacheValid(tok, exp, now)
        THEN InvokeFn([entered EXCEPT !.gatPre = [tok |-> tok, exp |-> exp],
                                      !.gatEnd = [tok |-> tok, exp |-> exp],
                                      !.gatOk = TRUE,
                                      !.gat = tok], tok)
        ELSE [entered EXCEPT !.pc = "authWait",
                             !.gat = Undefined,
                             !.gatOk = FALSE,
                             !.authReq = AuthBody(i),
                             !.authResp = NoResponse,
                             !.nAuth = @ + 1]

\* A cached token inside its valid window at time t: t is strictly before
\* the expiry minus five minutes.
InWindow(tok, exp, t) ==
    /\ tok # Undefined
    /\ exp.kind = "date"
    /\ t < exp.ms - 5 * 60 * 1000

Is401(r) == r.kind = "resolved" /\ r.status = 401

\* An authenticate outcome getAccessToken accepts: status 201 with both
\* access_token and expires_at present.
AuthComplete(r) ==
    /\ r.kind = "resolved"
    /\ r.status = 201
    /\ r.data.access_token # Undefined
    /\ r.data.expires_at.text # "missing"

\* What one step of call c, in which outcome r arrived, adds to the record
\* of its instance.
Observe(c, i, firstOfCall, r) ==
    seq' = [seq EXCEPT ![i] =
        [@ EXCEPT
            !.calls = IF firstOfCall THEN @ + 1 ELSE @,
            !.auth = @ + (calls'[c].nAuth - (IF firstOfCall THEN 0 ELSE calls[c].nAuth)),
            !.allInWindow = IF firstOfCall
                            THEN @ /\ ((seq[i].calls = 0 /\ token[i] = Undefined)
                                       \/ InWindow(token[i], tokenExpiry[i], now))
                            ELSE @,
            !.allReturned = @ /\ calls'[c].result.kind # "throw",
            !.no401 = @ /\ ~Is401(r),
            !.lastGood = IF calls[c].pc = "authWait" /\ AuthComplete(r)
                         THEN [by |-> c, resp |-> r]
                         ELSE @]]

\* Mutant of HandleError: the retry attempt is inside the try as well, and
\* its 401 is retried in turn.
HandleErrorRetriesAgain(c, cr, i, err, tok, exp) ==
    IF err.class = "VouchsafeApiError" /\ err.statusCode = 401
    THEN /\ token' = [token EXCEPT ![i] = Undefined]
         /\ tokenExpiry' = [tokenExpiry EXCEPT ![i] = UndefinedDate]
         /\ calls' = [calls EXCEPT ![c] =
                BeginAttempt([cr EXCEPT !.nInval = @ + 1], i, 2, Undefined, UndefinedDate)]
    ELSE /\ token' = [token EXCEPT ![i] = tok]
         /\ tokenExpiry' = [tokenExpiry EXCEPT ![i] = exp]
         /\ calls' = [calls EXCEPT ![c] = [cr EXCEPT !.pc = "done", !.result = Thrown(err)]]

\* Mutant of HandleError: the refresh is forced, but the old token stays
\* cached until a new one arrives.
HandleErrorRefreshesWithoutClearing(c, cr, i, err, tok, exp) ==
    IF ShouldRetry(cr.attempt, err)
    THEN /\ token' = [token EXCEPT ![i] = tok]
         /\ tokenExpiry' = [tokenExpiry EXCEPT ![i] = exp]
         /\ calls' = [calls EXCEPT ![c] =
                BeginAttempt([cr EXCEPT !.nInval = @ + 1], i, 2, Undefined, UndefinedDate)]
    ELSE /\ token' = [token EXCEPT ![i] = tok]
         /\ tokenExpiry' = [tokenExpiry EXCEPT ![i] = exp]
         /\ calls' = [calls EXCEPT ![c] = [cr EXCEPT !.pc = "done", !.result = Thrown(err)]]

\* Mutant of HandleError: every error clears the cache, not the 401 alone.
HandleErrorClearsAlways(c, cr, i, err, tok, exp) ==
    IF ShouldRetry(cr.attempt, err)
    THEN /\ token' = [token EXCEPT ![i] = Undefined]
         /\ tokenExpiry' = [tokenExpiry EXCEPT ![i] = UndefinedDate]
         /\ calls' = [calls EXCEPT ![c] =
                BeginAttempt([cr EXCEPT !.nInval = @ + 1], i, 2, Undefined, UndefinedDate)]
    ELSE /\ token' = [token EXCEPT ![i] = Undefined]
         /\ tokenExpiry' = [tokenExpiry EXCEPT ![i] = UndefinedDate]
         /\ calls' = [calls EXCEPT ![c] = [cr EXCEPT !.pc = "done", !.result = Thrown(err)]]

\* Mutant of HandleError: the cache is cleared only when it still holds the
\* token the failed request was sent with.
HandleErrorIfSameToken(c, cr, i, err, tok, exp) ==
    IF ShouldRetry(cr.attempt, err)
    THEN IF cr.fnReq = authHeaders(tok)
         THEN /\ token' = [token EXCEPT ![i] = Undefined]
              /\ tokenExpiry' = [tokenExpiry EXCEPT ![i] = UndefinedDate]
              /\ calls' = [calls EXCEPT ![c] =
                     BeginAttempt([cr EXCEPT !.nInval = @ + 1], i, 2,
                                  Undefined, UndefinedDate)]
         ELSE /\ token' = [token EXCEPT ![i] = tok]
              /\ tokenExpiry' = [tokenExpiry EXCEPT ![i] = exp]
              /\ calls' = [calls EXCEPT ![c] =
                     BeginAttempt([cr EXCEPT !.nInval = @ + 1], i, 2, tok, exp)]
    ELSE /\ token' = [token EXCEPT ![i] = tok]
         /\ tokenExpiry' = [tokenExpiry EXCEPT ![i] = exp]
         /\ calls' = [calls EXCEPT ![c] = [cr EXCEPT !.pc = "done", !.result = Thrown(err)]]

\* Mutant of HandleError: the retry is made without clearing the cache.
HandleErrorKeepsToken(c, cr, i, err, tok, exp) ==
    IF ShouldRetry(cr.attempt, err)
    THEN /\ token' = [token EXCEPT ![i] = tok]
         /\ tokenExpiry' = [tokenExpiry EXCEPT ![i] = exp]
         /\ calls' = [calls EXCEPT ![c] =
                BeginAttempt([cr EXCEPT !.nInval = @ + 1], i, 2, tok, exp)]
    ELSE /\ token' = [token EXCEPT ![i] = tok]
         /\ tokenExpiry' = [tokenExpiry EXCEPT ![i] = exp]
         /\ calls' = [calls EXCEPT ![c] = [cr EXCEPT !.pc = "done", !.result = Thrown(err)]]

\* Mutant of HandleError: the cache is shared by the instances, and a 401
\* clears it for all of them.
HandleErrorShared(c, cr, i, err, tok, exp) ==
    IF ShouldRetry(cr.attempt, err)
    THEN /\ token' = [j \in Instances |-> Undefined]
         /\ tokenExpiry' = [j \in Instances |-> UndefinedDate]
         /\ calls' = [calls EXCEPT ![c] =
                BeginAttempt([cr EXCEPT !.nInval = @ + 1], i, 2, Undefined, UndefinedDate)]
    ELSE /\ token' = [token EXCEPT ![i] = tok]
         /\ tokenExpiry' = [tokenExpiry EXCEPT ![i] = exp]
         /\ calls' = [calls EXCEPT ![c] = [cr EXCEPT !.pc = "done", !.result = Thrown(err)]]

\* withErrorHandling, lines 112-120: an error thrown by attempt reaches the
\* catch block when it was the first attempt, and the caller otherwise.
\* (tok, exp) is the cache at that moment.
HandleError(c, cr, i, err, tok, exp) ==
    IF ShouldRetry(cr.attempt, err)
    THEN /\ token' = [token EXCEPT ![i] = Undefined]
         /\ tokenExpiry' = [tokenExpiry EXCEPT ![i] = UndefinedDate]
         /\ calls' = [calls EXCEPT ![c] =
                BeginAttempt([cr EXCEPT !.nInval = @ + 1], i, 2, Undefined, UndefinedDate)]
    ELSE /\ token' = [token EXCEPT ![i] = tok]
         /\ tokenExpiry' = [tokenExpiry EXCEPT ![i] = exp]
         /\ calls' = [calls EXCEPT ![c] = [cr EXCEPT !.pc = "done", !.result = Thrown(err)]]

\* A public method (lines 127-176) of instance i is called: withErrorHandling
\* runs attempt, which runs authHeaders and getAccessToken (lines 50-67).
Call(c, i) ==
    /\ calls[c].pc \in {"idle", "done"}
    /\ seq[i].calls < MaxCalls
    /\ calls' = [calls EXCEPT ![c] =
            BeginAttempt([IdleCall EXCEPT !.inst = i], i, 1, token[i], tokenExpiry[i])]
    /\ Observe(c, i, TRUE, NoResponse)
    /\ UNCHANGED <<now, token, tokenExpiry>>

\* The authenticate request of call c ends with outcome r: getAccessToken
\* resumes at line 69.
AuthReturns(c, r) ==
    LET cr == calls[c]
        i == cr.inst
        g == GetAccessTokenResume(token[i], tokenExpiry[i], r)
        ended == [cr EXCEPT !.authResp = r,
                            !.gatPre = [tok |-> token[i], exp |-> tokenExpiry[i]],
                            !.gatEnd = [tok |-> g.tok, exp |-> g.exp],
                            !.gatOk = g.ok,
                            !.gat = g.value,
                            !.gatErr = IF g.ok THEN NoError ELSE g.error]
    IN  /\ cr.pc = "authWait"
        /\ IF g.ok
           THEN /\ token' = [token EXCEPT ![i] = g.tok]
                /\ tokenExpiry' = [tokenExpiry EXCEPT ![i] = g.exp]
                /\ calls' = [calls EXCEPT ![c] = InvokeFn(ended, g.value)]
           ELSE HandleError(c, ended, i, g.error, g.tok, g.exp)
        /\ Observe(c, i, FALSE, r)
        /\ UNCHANGED now

\* The endpoint function of call c ends with outcome r: attempt resumes at
\* line 99.
FnReturns(c, r) ==
    LET cr == calls[c]
        i == cr.inst
        got == [cr EXCEPT !.fnOut = r,
                          !.fnLast = IF r.kind = "resolved" THEN r ELSE @,
                          !.fn1 = IF cr.nFn = 1 THEN r ELSE @,
                          !.at1 = IF cr.nFn = 1
                                  THEN [nAuth |-> cr.nAuth, nFn |-> cr.nFn,
                                        nInval |-> cr.nInval]
                                  ELSE @,
                          !.atLast = IF r.kind = "resolved"
                                     THEN [nAuth |-> cr.nAuth, nFn |-> cr.nFn,
                                           nInval |-> cr.nInval]
                                     ELSE @]
    IN  /\ cr.pc = "fnWait"
        /\ IF r.kind = "resolved" /\ IsSuccess(r.status)
           THEN /\ calls' = [calls EXCEPT ![c] =
                        [got EXCEPT !.pc = "done", !.result = Returned(r.data)]]
                /\ UNCHANGED <<token, tokenExpiry>>
           ELSE HandleError(c, got, i, AttemptError(r), token[i], tokenExpiry[i])
        /\ Observe(c, i, FALSE, r)
        /\ UNCHANGED now

\* Time passes.
Tick ==
    /\ now < MaxNow * MinuteMs
    /\ now' = now + MinuteMs
    /\ UNCHANGED <<token, tokenExpiry, calls, seq>>

\* One instance, one public call at a time.
Next ==
    \/ Call(1, 1) /\ UNCHANGED <<issued, gcall>>
    \/ \E r \in AuthOutcomes : AuthReturns(1, r) /\ UNCHANGED <<issued, gcall>>
    \/ \E r \in FnOutcomes : FnReturns(1, r) /\ UNCHANGED <<issued, gcall>>
    \/ Tick /\ UNCHANGED <<issued, gcall>>

Spec == Init /\ [][Next]_vars

\* The outcomes used where calls overlap: two accepted authenticate
\* responses that differ in token and expiry, one without expiry and a 401;
\* an endpoint success, a 401 and a 404.
AuthOutcomesConc ==
    {Resolved(201, [access_token |-> "tokA", expires_at |-> IsoString(6 * MinuteMs)]),
     Resolved(201, [access_token |-> "tokB", expires_at |-> IsoString(8 * MinuteMs)]),
     Resolved(201, [access_token |-> "tokA", expires_at |-> MissingString]),
     Resolved(401, [access_token |-> Undefined, expires_at |-> MissingString])}
FnOutcomesConc ==
    {Resolved(200, [id |-> "p1"]), Resolved(401, NullData),
     Resolved(404, [id |-> "p2", message |-> "not found"])}

\* One instance, public calls that overlap: every await of one call is a
\* point where the other call may run.
NextConc ==
    \/ \E c \in CallIds : Call(c, 1) /\ UNCHANGED <<issued, gcall>>
    \/ \E c \in CallIds : \E r \in AuthOutcomesConc :
            AuthReturns(c, r) /\ UNCHANGED <<issued, gcall>>
    \/ \E c \in CallIds : \E r \in FnOutcomesConc :
            FnReturns(c, r) /\ UNCHANGED <<issued, gcall>>
    \/ now < MaxNowConc * MinuteMs /\ Tick /\ UNCHANGED <<issued, gcall>>

SpecConc == Init /\ [][NextConc]_vars

\* One instance, one call at a time, with collaborators that always end:
\* an authenticate call and an endpoint invocation in flight eventually
\* resolve or reject.
AuthEnds == \E r \in AuthOutcomesConc \cup {Rejected} : AuthReturns(1, r) /\ UNCHANGED <<issued, gcall>>
FnEnds == \E r \in FnOutcomesConc \cup {Rejected} : FnReturns(1, r) /\ UNCHANGED <<issued, gcall>>

NextLive ==
    \/ Call(1, 1) /\ UNCHANGED <<issued, gcall>>
    \/ AuthEnds
    \/ FnEnds
    \/ now < MaxNowConc * MinuteMs /\ Tick /\ UNCHANGED <<issued, gcall>>

SpecLive == Init /\ [][NextLive]_vars /\ WF_vars(AuthEnds) /\ WF_vars(FnEnds)

\* Two instances in one process, call c made on instance c: the calls of
\* the two instances overlap in every order.
NextTwo ==
    \/ \E c \in CallIds : seq[c].calls < MaxCallsTwo /\ Call(c, c) /\ UNCHANGED <<issued, gcall>>
    \/ \E c \in CallIds : \E r \in AuthOutcomesConc :
            AuthReturns(c, r) /\ UNCHANGED <<issued, gcall>>
    \/ \E c \in CallIds : \E r \in FnOutcomesConc :
            FnReturns(c, r) /\ UNCHANGED <<issued, gcall>>
    \/ now < MaxNowConc * MinuteMs /\ Tick /\ UNCHANGED <<issued, gcall>>

SpecTwo == Init /\ [][NextTwo]_vars

-----------------------------------------------------------------------------
(* The client generated with openapi-generator *)

\* withErrorHandling of part_002, lines 114-116: the VouchsafeApiError made
\* from a ResponseError.
TranslatedError(e) ==
    LET body == IF e.body = Unparsable THEN EmptyObject ELSE e.body
        message == IF "message" \in DOMAIN body /\ body.message # Null
                   THEN body.message
                   ELSE e.statusText
    IN  VouchsafeApiError(e.status, body, message)

\* getAccessToken of part_002, lines 94-95
StoredFrom(r) == [tok |-> r.value.access_token, exp |-> NewDate(r.value.expires_at)]

\* An endpoint operation is invoked with the cache (tok, exp): the request
\* code asks the accessToken hook of line 53, getAccessToken, for the token
\* first, which returns the cached one or issues authenticate (lines 73-92).
InvokeOperation(g, tok, exp) ==
    IF CacheValid(tok, exp, now)
    THEN [g EXCEPT !.pc = "opWait", !.nOp = @ + 1, !.bearer = tok,
                   !.opOut = NoResponse, !.opAfter401 = g.nInval > 0]
    ELSE [g EXCEPT !.pc = "hookWait", !.nOp = @ + 1, !.nAuth = @ + 1,
                   !.opOut = NoResponse, !.opAfter401 = g.nInval > 0]

\* Activation L of withErrorHandling (0: the public method) calls its fn:
\* every activation inside it starts anew, and the innermost one invokes the
\* endpoint operation.
CallFn(g, L, tok, exp) ==
    LET d == WrapDepth[g.method]
    IN  InvokeOperation(
            [g EXCEPT !.level = d,
                      !.phase = [l \in 1..2 |->
                                    IF l > L /\ l <= d THEN "try" ELSE g.phase[l]]],
            tok, exp)

\* Error e reaches activation L of withErrorHandling, the cache being
\* (tok, exp): lines 103-120.  An activation that has reached line 109
\* catches nothing more; the others retry on a ResponseError with status 401,
\* translate another ResponseError, and rethrow the rest.
RECURSIVE Catch(_, _, _, _, _)
Catch(g, L, e, tok, exp) ==
    IF L = 0
    THEN [g |-> [g EXCEPT !.pc = "done", !.level = 0, !.result = Thrown(e)],
          tok |-> tok, exp |-> exp]
    ELSE IF g.phase[L] # "try"
    THEN Catch([g EXCEPT !.phase[L] = "none"], L - 1, e, tok, exp)
    ELSE IF e.class = "ResponseError" /\ e.status = 401
    THEN [g |-> [g EXCEPT !.pc = "reauthWait", !.level = L, !.phase[L] = "catch",
                          !.nInval = @ + 1, !.nReauth = @ + 1, !.nAuth = @ + 1],
          tok |-> Undefined, exp |-> UndefinedDate]
    ELSE IF e.class = "ResponseError"
    THEN Catch([g EXCEPT !.phase[L] = "none"], L - 1, TranslatedError(e), tok, exp)
    ELSE Catch([g EXCEPT !.phase[L] = "none"], L - 1, e, tok, exp)

\* What a step of the generated client leaves alone.
Apart == <<now, calls, issued, seq>>

SetCache(tok, exp) ==
    /\ token' = [token EXCEPT ![1] = tok]
    /\ tokenExpiry' = [tokenExpiry EXCEPT ![1] = exp]

\* Public method m is called (lines 129-240).
PublicCall(m) ==
    /\ gcall.pc \in {"idle", "done"}
    /\ gcall.n < MaxGeneratedCalls
    /\ gcall' = CallFn([IdleGeneratedCall EXCEPT !.method = m, !.n = gcall.n + 1],
                       0, token[1], tokenExpiry[1])
    /\ UNCHANGED <<token, tokenExpiry>>
    /\ UNCHANGED Apart

\* The authenticate call issued by the accessToken hook ends with outcome r.
HookReturns(r) ==
    /\ gcall.pc = "hookWait"
    /\ IF r.kind = "resolved"
       THEN /\ SetCache(StoredFrom(r).tok, StoredFrom(r).exp)
            /\ gcall' = [gcall EXCEPT !.pc = "opWait", !.bearer = StoredFrom(r).tok,
                                      !.authOut = r]
       ELSE LET h == Catch([gcall EXCEPT !.authOut = r], gcall.level, r.error,
                           token[1], tokenExpiry[1])
            IN  SetCache(h.tok, h.exp) /\ gcall' = h.g
    /\ UNCHANGED Apart

\* The endpoint operation ends with outcome r.
OperationReturns(r) ==
    /\ gcall.pc = "opWait"
    /\ IF r.kind = "resolved"
       THEN /\ gcall' = [gcall EXCEPT !.pc = "done", !.level = 0, !.opOut = r,
                                      !.phase = [l \in 1..2 |-> "none"],
                                      !.result = Returned(r.value)]
            /\ UNCHANGED <<token, tokenExpiry>>
       ELSE LET h == Catch([gcall EXCEPT !.opOut = r], gcall.level, r.error,
                           token[1], tokenExpiry[1])
            IN  SetCache(h.tok, h.exp) /\ gcall' = h.g
    /\ UNCHANGED Apart

\* The authenticate call issued from line 109 ends with outcome r: on
\* success line 111 calls fn again; a rejection leaves the catch block.
ReauthReturns(r) ==
    /\ gcall.pc = "reauthWait"
    /\ IF r.kind = "resolved"
       THEN /\ SetCache(StoredFrom(r).tok, StoredFrom(r).exp)
            /\ gcall' = CallFn([gcall EXCEPT !.authOut = r], gcall.level,
                               StoredFrom(r).tok, StoredFrom(r).exp)
       ELSE LET h == Catch([gcall EXCEPT !.authOut = r], gcall.level, r.error,
                           token[1], tokenExpiry[1])
            IN  SetCache(h.tok, h.exp) /\ gcall' = h.g
    /\ UNCHANGED Apart

\* The generated client, one public call at a time.
NextGenerated ==
    \/ \E m \in Methods : PublicCall(m)
    \/ \E r \in AuthenticateOutcomes : HookReturns(r)
    \/ \E r \in OperationOutcomes : OperationReturns(r)
    \/ \E r \in AuthenticateOutcomes : ReauthReturns(r)
    \/ now < MaxNowConc * MinuteMs /\ Tick /\ UNCHANGED <<issued, gcall>>

SpecGenerated == Init /\ [][NextGenerated]_vars

\* A process that uses one variant of the client or the other: the client of
\* part_001, one call at a time, or the generated one.
NextEither ==
    \/ gcall.n = 0 /\ Next
    \/ seq[1].calls = 0 /\ NextGenerated

SpecEither == Init /\ [][NextEither]_vars

\* The server of the README's multi-instance section: each authenticate
\* call with valid credentials issues a token that differs from the one it
\* honoured for them until then, which it honours no longer.
ServerIssues(req, r) ==
    /\ req \in Credentials
    /\ r.status = 201
    /\ r.data.access_token \in TokenValues \ {issued[req]}
    /\ r.data.expires_at.text = "iso"
    /\ issued' = [issued EXCEPT ![req] = r.data.access_token]

\* The server honours the Authorization header h.
Honoured(h) ==
    \E k \in Credentials :
        issued[k] # Undefined /\ h = [headers |-> [Authorization |-> "Bearer " \o issued[k]]]

\* An endpoint answers 401 exactly when the token presented is not honoured.
ServerAnswers(req, r) ==
    /\ (r.status = 401) <=> ~Honoured(req)
    /\ UNCHANGED issued

\* Two instances that share their credentials, against that server.
NextServer ==
    \/ \E c \in CallIds : seq[c].calls < MaxCallsServer /\ Call(c, c) /\ UNCHANGED <<issued, gcall>>
    \/ \E c \in CallIds : \E r \in AuthOutcomesConc :
            AuthReturns(c, r) /\ ServerIssues(calls[c].authReq, r) /\ UNCHANGED gcall
    \/ \E c \in CallIds : \E r \in FnOutcomesConc :
            FnReturns(c, r) /\ ServerAnswers(calls[c].fnReq, r) /\ UNCHANGED gcall
    \/ now < MaxNowConc * MinuteMs /\ Tick /\ UNCHANGED <<issued, gcall>>

SpecServer == Init /\ [][NextServer]_vars

\* The token the server issues to another holder of the same credentials.
OtherToken == "tokC"

\* Another holder of credentials k authenticates: the server issues it a
\* token, which invalidates the one issued before.
OtherHolderAuthenticates(k) ==
    /\ issued[k] # OtherToken
    /\ issued' = [issued EXCEPT ![k] = OtherToken]
    /\ UNCHANGED <<now, token, tokenExpiry, calls, gcall, seq>>

\* One instance, one call at a time, against that server, while other
\* holders of its credentials authenticate.
NextStale ==
    \/ Call(1, 1) /\ UNCHANGED <<issued, gcall>>
    \/ \E r \in AuthOutcomesConc :
            AuthReturns(1, r) /\ ServerIssues(calls[1].authReq, r) /\ UNCHANGED gcall
    \/ \E r \in FnOutcomesConc :
            FnReturns(1, r) /\ ServerAnswers(calls[1].fnReq, r) /\ UNCHANGED gcall
    \/ OtherHolderAuthenticates(options[1])
    \/ now < MaxNowConc * MinuteMs /\ Tick /\ UNCHANGED <<issued, gcall>>

SpecStale == Init /\ [][NextStale]_vars

TypeOK ==
    /\ now \in Clock
    /\ \A i \in Instances : token[i] \in TokenValues \cup {Undefined}
    /\ \A c \in CallIds : calls[c].pc \in {"idle", "authWait", "fnWait", "done"}

-----------------------------------------------------------------------------
(* Properties *)

\* What followed the arrival of the first endpoint response of a call.
Followed(cr) ==
    [nAuth |-> cr.nAuth - cr.at1.nAuth,
     nFn |-> cr.nFn - cr.at1.nFn,
     nInval |-> cr.nInval - cr.at1.nInval]

\* C1 as stated: a call whose first invocation of the wrapped endpoint
\* function returned 401 is followed by exactly one invalidation, exactly one
\* new authenticate call and exactly one further invocation of the function,
\* and never by a third invocation.
C1_AsStated ==
    \A c \in CallIds :
        (calls[c].pc = "done" /\ Is401(calls[c].fn1)) =>
            /\ Followed(calls[c]) = [nAuth |-> 1, nFn |-> 1, nInval |-> 1]
            /\ calls[c].nFn <= 2

\* C1 amended: a 401 answer to the invocation made by the first attempt is
\* followed by exactly one invalidation and exactly one new authenticate
\* call, and by one further invocation of the wrapped function exactly when
\* that authenticate call returns 201 with both fields (by none otherwise);
\* a 401 answer to a first invocation made by the retry attempt (the first
\* attempt having ended in a 401 from authenticate) is followed by nothing
\* and is thrown; no call invokes the function a third time or invalidates
\* twice.
C1_RetryOnceAfter401 ==
    \A c \in CallIds :
        LET cr == calls[c] IN
        /\ cr.nFn <= 2
        /\ cr.nInval <= 1
        /\ (cr.pc = "done" /\ Is401(cr.fn1)) =>
              IF cr.fn1Attempt = 1
              THEN Followed(cr) =
                       [nAuth |-> 1,
                        nFn |-> IF AuthComplete(cr.authResp) THEN 1 ELSE 0,
                        nInval |-> 1]
              ELSE /\ Followed(cr) = [nAuth |-> 0, nFn |-> 0, nInval |-> 0]
                   /\ cr.result.kind = "throw"
                   /\ cr.result.error.statusCode = 401

\* C1 witness: a call that got 401 twice has ended after one invalidation
\* and two invocations.
C1_Witness ==
    \E c \in CallIds :
        /\ calls[c].pc = "done"
        /\ calls[c].fn1Attempt = 1
        /\ Is401(calls[c].fn1)
        /\ Is401(calls[c].fnOut)
        /\ calls[c].nFn = 2
        /\ calls[c].nInval = 1

\* C2: after a first response of 401, a retried call that returns 200 or 201
\* gives the caller the retried response's data, and a retried call that
\* returns any other status gives the caller a VouchsafeApiError with the
\* retried response's status and body.
C2_RetryOutcomeIsTheRetrys ==
    \A c \in CallIds :
        LET cr == calls[c] IN
        (cr.pc = "done" /\ Is401(cr.fn1) /\ cr.nFn = 2 /\ cr.fnOut.kind = "resolved") =>
            IF cr.fnOut.status \in {200, 201}
            THEN cr.result = [kind |-> "return", value |-> cr.fnOut.data]
            ELSE /\ cr.result.kind = "throw"
                 /\ cr.result.error.class = "VouchsafeApiError"
                 /\ cr.result.error.statusCode = cr.fnOut.status
                 /\ cr.result.error.responseBody = cr.fnOut.data

\* C2 witness: the retry failed with a status and a body other than the
\* first response's.
C2_Witness ==
    \E c \in CallIds :
        /\ calls[c].pc = "done"
        /\ Is401(calls[c].fn1)
        /\ calls[c].nFn = 2
        /\ calls[c].fnOut.kind = "resolved"
        /\ calls[c].fnOut.status = 404
        /\ calls[c].fnOut.data # calls[c].fn1.data
        /\ calls[c].fnOut.data # NullData
        /\ calls[c].result.kind = "throw"
        /\ calls[c].result.error.responseBody = calls[c].fnOut.data

\* The cache and clock a getAccessToken invocation found: a token whose
\* expiry minus five minutes is still ahead.
SawInWindow(cr) == InWindow(cr.saw.tok, cr.saw.exp, cr.saw.now)

\* The claim's other case: no token, or one at or past expiry minus five
\* minutes.
SawAbsentOrExpiring(cr) ==
    \/ cr.saw.tok = Undefined
    \/ /\ cr.saw.exp.kind = "date"
       /\ cr.saw.now >= cr.saw.exp.ms - 5 * 60 * 1000

\* C3: a getAccessToken invocation that finds a cached token with now
\* strictly before expiry minus 5 minutes issues no authenticate call,
\* returns the cached token and leaves token and expiry as they were.
C3_CachedTokenReused ==
    \A c \in CallIds :
        LET cr == calls[c] IN
        (cr.nGat >= 1 /\ SawInWindow(cr)) =>
            /\ cr.nAuth = cr.saw.nAuth
            /\ cr.pc # "authWait"
            /\ cr.gatOk
            /\ cr.gat = cr.saw.tok
            /\ cr.pc = "fnWait" =>
                  /\ token[cr.inst] = cr.saw.tok
                  /\ tokenExpiry[cr.inst] = cr.saw.exp

\* C3 witness: a call made one minute before the boundary is using the
\* cached token.
C3_Witness ==
    \E c \in CallIds :
        /\ calls[c].pc = "fnWait"
        /\ calls[c].saw.tok \in TokenValues
        /\ calls[c].saw.exp.kind = "date"
        /\ calls[c].saw.now = calls[c].saw.exp.ms - 6 * 60 * 1000
        /\ calls[c].nAuth = 0

\* The Date that new Date(expires_at) gives.
DateOfField(f) ==
    IF f.text = "iso" THEN [kind |-> "date", ms |-> f.ms] ELSE [kind |-> "invalid", ms |-> 0]

\* C4: a getAccessToken invocation that finds no token, or a token with now
\* at or after expiry minus 5 minutes, issues exactly one authenticate call
\* with the instance's client_id and client_secret; when that call returns
\* 201 with both fields, the returned access_token and expires_at are stored
\* and the access_token is returned.
C4_RefreshWhenAbsentOrExpiring ==
    \A c \in CallIds :
        LET cr == calls[c] IN
        (cr.nGat >= 1 /\ SawAbsentOrExpiring(cr)) =>
            /\ cr.nAuth = cr.saw.nAuth + 1
            /\ cr.authReq = [client_id |-> "id",
                             client_secret |-> "s1"]
            /\ AuthComplete(cr.authResp) =>
                  /\ cr.gatOk
                  /\ cr.gat = cr.authResp.data.access_token
                  /\ cr.gatEnd = [tok |-> cr.authResp.data.access_token,
                                  exp |-> DateOfField(cr.authResp.data.expires_at)]
                  /\ cr.pc = "fnWait" =>
                        /\ token[cr.inst] = cr.authResp.data.access_token
                        /\ tokenExpiry[cr.inst] =
                               DateOfField(cr.authResp.data.expires_at)

\* C4 witness: a token found exactly at expiry minus 5 minutes was replaced
\* by the one a new authenticate call returned.
C4_Witness ==
    \E c \in CallIds :
        /\ calls[c].pc = "fnWait"
        /\ calls[c].saw.tok \in TokenValues
        /\ calls[c].saw.exp.kind = "date"
        /\ calls[c].saw.now = calls[c].saw.exp.ms - 5 * 60 * 1000
        /\ AuthComplete(calls[c].authResp)
        /\ token[calls[c].inst] # calls[c].saw.tok

\* An authenticate outcome with a status other than 201.
AuthRefused(r) == r.kind = "resolved" /\ r.status # 201

\* C5 as stated: when authenticate returns a status other than 201,
\* getAccessToken fails and no token is cached after the failure, whatever
\* the cache held before.
C5_AsStated ==
    \A c \in CallIds :
        AuthRefused(calls[c].authResp) =>
            /\ ~calls[c].gatOk
            /\ calls[c].gatEnd.tok = Undefined

\* C5 amended: when authenticate returns a status other than 201,
\* getAccessToken fails with a VouchsafeApiError ("Authentication failed",
\* carrying the status and body) and writes nothing: token and expiry are
\* after the failure what they were before it, so no token is cached if none
\* was, and a token inside the 5-minute buffer window stays stored.
C5_AuthFailureLeavesCache ==
    \A c \in CallIds :
        LET cr == calls[c] IN
        AuthRefused(cr.authResp) =>
            /\ ~cr.gatOk
            /\ cr.gatErr = [class |-> "VouchsafeApiError",
                            name |-> "VouchsafeApiError",
                            statusCode |-> cr.authResp.status,
                            responseBody |-> cr.authResp.data,
                            message |-> "Authentication failed"]
            /\ cr.gatEnd = cr.gatPre
            /\ cr.saw.tok = Undefined => cr.gatEnd.tok = Undefined
            /\ (cr.pc = "done" /\ cr.authResp.status # 401) =>
                  /\ token[cr.inst] = cr.gatPre.tok
                  /\ tokenExpiry[cr.inst] = cr.gatPre.exp
                  /\ cr.result = [kind |-> "throw", error |-> cr.gatErr]

\* C5 witness: authenticate was refused while a token inside the buffer
\* window was cached, and the token is still there.
C5_Witness ==
    \E c \in CallIds :
        /\ calls[c].pc = "done"
        /\ AuthRefused(calls[c].authResp)
        /\ calls[c].authResp.status = 200
        /\ calls[c].saw.tok \in TokenValues
        /\ calls[c].saw.exp.kind = "date"
        /\ calls[c].saw.now >= calls[c].saw.exp.ms - 5 * 60 * 1000
        /\ token[calls[c].inst] = calls[c].saw.tok

\* An authenticate outcome of status 201 that lacks one of the two fields.
AuthIncomplete(r) ==
    /\ r.kind = "resolved"
    /\ r.status = 201
    /\ (r.data.access_token = Undefined \/ r.data.expires_at.text = "missing")

\* C6: when authenticate returns 201 without access_token or without
\* expires_at, getAccessToken fails with an authentication error and writes
\* neither field of the cache.
C6_IncompleteAuthWritesNothing ==
    \A c \in CallIds :
        LET cr == calls[c] IN
        AuthIncomplete(cr.authResp) =>
            /\ ~cr.gatOk
            /\ cr.gatErr = [class |-> "VouchsafeApiError",
                            name |-> "VouchsafeApiError",
                            statusCode |-> 201,
                            responseBody |-> cr.authResp.data,
                            message |->
                                "Authentication response missing token or expiry"]
            /\ cr.gatEnd = cr.gatPre
            /\ cr.pc = "done"
            /\ token[cr.inst] = cr.gatPre.tok
            /\ tokenExpiry[cr.inst] = cr.gatPre.exp
            /\ cr.result = [kind |-> "throw", error |-> cr.gatErr]

\* C6 witness: a 201 response with a new access_token and no expires_at
\* arrived while another token was cached.
C6_Witness ==
    \E c \in CallIds :
        /\ calls[c].pc = "done"
        /\ AuthIncomplete(calls[c].authResp)
        /\ calls[c].authResp.data.access_token \in TokenValues
        /\ calls[c].gatPre.tok \in TokenValues
        /\ calls[c].gatPre.tok # calls[c].authResp.data.access_token

\* A non-success status other than 401 is the latest endpoint response.
IsOtherFailure(r) == r.kind = "resolved" /\ r.status \notin {200, 201, 401}

Quiet(i) == \A c \in CallIds : calls[c].inst = i => calls[c].pc \in {"idle", "done"}

\* C8 as stated: when every call made so far on an instance has returned
\* success and every call after the first was made with now before the
\* cached expiry minus 5 minutes, authenticate has been invoked at most once,
\* and by no call but the first.
C8_AsStated ==
    \A i \in Instances :
        (Quiet(i) /\ seq[i].allReturned /\ seq[i].allInWindow) =>
            /\ seq[i].auth <= 1
            /\ \A c \in CallIds :
                  (calls[c].inst = i /\ seq[i].calls >= 2) => calls[c].nAuth = 0

\* C8 amended: when every call made so far on an instance has returned
\* success, none of them received a 401 response (from the endpoint or from
\* authenticate), and every call after the first was made with now before
\* the cached expiry minus 5 minutes, authenticate has been invoked at most
\* once, and by no call but the first.
C8_NoReauthInsideWindow ==
    \A i \in Instances :
        (Quiet(i) /\ seq[i].allReturned /\ seq[i].allInWindow /\ seq[i].no401) =>
            /\ seq[i].auth <= 1
            /\ \A c \in CallIds :
                  (calls[c].inst = i /\ seq[i].calls >= 2) => calls[c].nAuth = 0

\* C8 witness: two calls have returned success on an instance after a single
\* authenticate call.
C8_Witness ==
    \E i \in Instances :
        /\ Quiet(i)
        /\ seq[i].calls = 2
        /\ seq[i].allReturned
        /\ seq[i].allInWindow
        /\ seq[i].no401
        /\ seq[i].auth = 1

\* C9: every invocation of the wrapped endpoint function carries the header
\* Authorization: 'Bearer ' followed by the token getAccessToken returned for
\* that attempt; on the retry after a 401 that token is the one the new
\* authenticate call returned, so it differs from the header of the first
\* invocation unless the same value was issued again.
C9_BearerOfThisAttempt ==
    \A c \in CallIds :
        LET cr == calls[c] IN
        cr.pc = "fnWait" =>
            /\ cr.gatOk
            /\ cr.fnReq = [headers |-> [Authorization |-> "Bearer " \o cr.gat]]
            /\ cr.gat = IF SawInWindow(cr) THEN cr.saw.tok
                        ELSE cr.authResp.data.access_token
            /\ cr.attempt = 2 =>
                  /\ AuthComplete(cr.authResp)
                  /\ cr.gat = cr.authResp.data.access_token
                  /\ cr.gat = token[cr.inst]
                  /\ (cr.nFn = 2 /\ cr.fnReq = cr.fnReq1) =>
                        cr.fnReq1.headers.Authorization =
                            "Bearer " \o cr.authResp.data.access_token

\* C9 witness: the retry after a 401 is under way with another token than
\* the first invocation carried.
C9_Witness ==
    \E c \in CallIds :
        /\ calls[c].pc = "fnWait"
        /\ calls[c].attempt = 2
        /\ calls[c].nFn = 2
        /\ Is401(calls[c].fn1)
        /\ calls[c].fnReq1.headers.Authorization = "Bearer tokA"
        /\ calls[c].fnReq.headers.Authorization = "Bearer tokB"

\* The latest response status is a success code.
LastIsSuccess(cr) == cr.fnLast.kind = "resolved" /\ cr.fnLast.status \in {200, 201}

\* C10 as stated: withErrorHandling returns normally exactly when the last
\* response of the wrapped function has status 200 or 201, the value being
\* that response's data; every other status ends in a thrown
\* VouchsafeApiError.
C10_AsStated ==
    \A c \in CallIds :
        LET cr == calls[c] IN
        cr.pc = "done" =>
            /\ cr.result.kind = "return" <=> LastIsSuccess(cr)
            /\ cr.result.kind = "return" => cr.result.value = cr.fnLast.data
            /\ (cr.fnLast.kind = "resolved" /\ ~LastIsSuccess(cr)) =>
                  /\ cr.result.kind = "throw"
                  /\ cr.result.error.class = "VouchsafeApiError"

\* C10 amended: withErrorHandling returns normally exactly when the last
\* response of the wrapped function has status 200 or 201, the value being
\* that response's data; every other status ends in a thrown error, which is
\* a VouchsafeApiError unless the status was a first-attempt 401 and the
\* retry was cut short by a transport-level rejection (of its authenticate
\* call or of its invocation of the function), whose error is then thrown as
\* it is.
C10_ReturnsIffLastSuccess ==
    \A c \in CallIds :
        LET cr == calls[c] IN
        cr.pc = "done" =>
            /\ cr.result.kind = "return" <=> LastIsSuccess(cr)
            /\ cr.result.kind = "return" => cr.result.value = cr.fnLast.data
            /\ (cr.fnLast.kind = "resolved" /\ ~LastIsSuccess(cr)) =>
                  /\ cr.result.kind = "throw"
                  /\ \/ cr.result.error.class = "VouchsafeApiError"
                     \/ /\ cr.fnLast.status = 401
                        /\ cr.fnLast = cr.fn1
                        /\ cr.fn1Attempt = 1
                        /\ cr.nInval = 1
                        /\ \/ /\ cr.nFn = 1
                              /\ cr.authResp.kind = "rejected"
                              /\ cr.result.error = cr.authResp.error
                           \/ /\ cr.nFn = 2
                              /\ cr.fnOut.kind = "rejected"
                              /\ cr.result.error = cr.fnOut.error

\* C10 witness: a call has returned the data of a 201 response.
C10_Witness ==
    \E c \in CallIds :
        /\ calls[c].pc = "done"
        /\ calls[c].fnLast.kind = "resolved"
        /\ calls[c].fnLast.status = 201
        /\ calls[c].fnLast.data = [id |-> "p1"]
        /\ calls[c].result = [kind |-> "return", value |-> [id |-> "p1"]]

\* The body carries a message: the field is there and holds a value.
HasMessage(d) == d # NullData /\ "message" \in DOMAIN d /\ d.message # Null

\* Call record cr ended by throwing the error attempt built from the response
\* of its latest endpoint invocation.
ThrewForResponse(cr) ==
    /\ cr.pc = "done"
    /\ cr.result.kind = "throw"
    /\ cr.gatOk
    /\ cr.fnOut.kind = "resolved"

\* C11: the error thrown for a non-success endpoint response with status N
\* is a VouchsafeApiError whose statusCode is N, whose responseBody is the
\* response data as received, and whose message is the body's message field
\* when the body carries one and "Request failed with status N" otherwise.
C11_ErrorCarriesResponse ==
    \A c \in CallIds :
        ThrewForResponse(calls[c]) =>
            LET e == calls[c].result.error
                r == calls[c].fnOut
            IN  /\ e.class = "VouchsafeApiError"
                /\ e.statusCode = r.status
                /\ e.responseBody = r.data
                /\ HasMessage(r.data) => e.message = r.data.message
                /\ ~HasMessage(r.data) =>
                        e.message = "Request failed with status " \o ToString(r.status)

C11_Witness ==
    \E c \in CallIds :
        /\ ThrewForResponse(calls[c])
        /\ calls[c].fnOut = Resolved(404, [id |-> "p3", message |-> Null])
        /\ calls[c].result.error.message = "Request failed with status 404"
        /\ calls[c].nFn = 2

\* Call record cr is in its first attempt, found no usable token when it
\* entered getAccessToken, and its authenticate call has been accepted.
Refreshed(cr) ==
    /\ cr.pc \in {"fnWait", "done"}
    /\ cr.attempt = 1
    /\ ~InWindow(cr.saw.tok, cr.saw.exp, cr.saw.now)
    /\ AuthComplete(cr.authResp)

\* C12: a call that starts with no valid token issues its own authenticate
\* call, whether or not another call of the instance has one in flight; of
\* two such calls whose authenticate calls both succeeded, the cache holds
\* the token and the expiry of the response that completed last.
C12_LastResponseWins ==
    /\ \A c \in CallIds :
            (calls[c].pc # "idle" /\ calls[c].attempt = 1
                /\ ~InWindow(calls[c].saw.tok, calls[c].saw.exp, calls[c].saw.now)) =>
                /\ calls[c].nAuth = 1
                /\ calls[c].authReq = [client_id |-> options[calls[c].inst].client_id,
                                       client_secret |-> options[calls[c].inst].client_secret]
    /\ \A c, d \in CallIds :
            (c # d /\ calls[c].inst = calls[d].inst
                /\ Refreshed(calls[c]) /\ Refreshed(calls[d])) =>
                LET i == calls[c].inst
                    g == seq[i].lastGood
                IN  /\ g.by \in {c, d}
                    /\ g.resp = calls[g.by].authResp
                    /\ token[i] = g.resp.data.access_token
                    /\ tokenExpiry[i] = DateOfField(g.resp.data.expires_at)

\* Both calls entered getAccessToken on an empty cache, both authenticate
\* calls succeeded with different tokens, and the one of call 1 came last.
C12_Witness ==
    /\ Refreshed(calls[1]) /\ Refreshed(calls[2])
    /\ calls[1].inst = 1 /\ calls[2].inst = 1
    /\ calls[1].saw.tok = Undefined /\ calls[2].saw.tok = Undefined
    /\ seq[1].auth = 2
    /\ calls[2].authResp.data.access_token = "tokA"
    /\ calls[1].authResp.data.access_token = "tokB"
    /\ seq[1].lastGood.by = 1
    /\ token[1] = "tokB"
    /\ tokenExpiry[1] = ValidDate(8 * MinuteMs)

\* Call c takes a step.
Steps(c) == calls'[c] # calls[c]

\* The step of call c enters getAccessToken for the first attempt.
EntersFirstAttempt(c) ==
    /\ calls[c].pc \in {"idle", "done"}
    /\ calls'[c].pc \in {"authWait", "fnWait"}

\* C13: a step of a call made on one instance leaves the token and the
\* expiry of every other instance as they were, and what the call finds in
\* the cache is the token and the expiry of its own instance.
C13_InstancesIsolated ==
    [][\A c \in CallIds :
        Steps(c) =>
            LET i == calls'[c].inst
            IN  /\ \A j \in Instances \ {i} :
                        token'[j] = token[j] /\ tokenExpiry'[j] = tokenExpiry[j]
                /\ EntersFirstAttempt(c) =>
                        /\ calls'[c].saw.tok = token[i]
                        /\ calls'[c].saw.exp = tokenExpiry[i]
                /\ calls[c].pc = "authWait" =>
                        /\ calls'[c].gatPre.tok = token[i]
                        /\ calls'[c].gatPre.exp = tokenExpiry[i]]_vars

\* Instance 2 handles a 401 and clears its cache while instance 1 holds
\* another token, which stays.
C13_Witness ==
    /\ calls[1].inst = 1 /\ calls[2].inst = 2
    /\ calls[2].nInval = 1 /\ calls[2].pc = "authWait"
    /\ calls[2].fnReq = [headers |-> [Authorization |-> "Bearer tokB"]]
    /\ token[2] = Undefined
    /\ token[1] = "tokA"
    /\ tokenExpiry[1] = ValidDate(6 * MinuteMs)
    /\ calls[1].pc = "done"

\* The instance that shares its credentials with instance i.
Other(i) == CHOOSE j \in Instances : j # i

\* C14: with two instances sharing credentials against a server that
\* honours only the token it issued last, an endpoint invocation is answered
\* 401 only after the other instance has authenticated; the call then
\* clears its cache, authenticates once more and invokes the endpoint a
\* second time, and no call invokes its endpoint more than twice.
C14_StolenTokenRetriedOnce ==
    \A c \in CallIds :
        /\ calls[c].nFn <= 2
        /\ Is401(calls[c].fn1) =>
                /\ seq[Other(calls[c].inst)].auth >= 1
                /\ calls[c].nInval = 1
                /\ calls[c].nAuth = calls[c].at1.nAuth + 1
        /\ (calls[c].pc = "done" /\ Is401(calls[c].fn1)) => calls[c].nFn = 2

\* Call 1 authenticated, was answered 401 all the same because instance 2
\* authenticated in between, authenticated again and returned; instance 2,
\* whose token that took away, was answered 401 in its turn.
C14_Witness ==
    /\ calls[1].inst = 1 /\ calls[2].inst = 2
    /\ calls[1].pc = "done" /\ calls[1].result.kind = "return"
    /\ Is401(calls[1].fn1) /\ calls[1].at1.nAuth = 1
    /\ calls[1].nAuth = 2 /\ calls[1].nFn = 2
    /\ Is401(calls[2].fn1) /\ calls[2].at1.nAuth = 1
    /\ seq[1].calls = 1 /\ seq[2].calls = 1

\* The generated client's call ended after an endpoint invocation that
\* followed a 401 was answered with a status that is no success.
RetryFailed ==
    /\ gcall.pc = "done"
    /\ gcall.opAfter401
    /\ gcall.opOut.kind = "rejected"
    /\ gcall.opOut.error.class = "ResponseError"

\* C15 as stated: in the generated client, when the call retried after a
\* 401 fails with a non-success status too, the caller receives a
\* VouchsafeApiError that carries the status and the body of the retried
\* response.
C15_AsStated ==
    RetryFailed =>
        /\ gcall.result.kind = "throw"
        /\ gcall.result.error.class = "VouchsafeApiError"
        /\ gcall.result.error.statusCode = gcall.opOut.error.status
        /\ gcall.result.error.responseBody =
                (IF gcall.opOut.error.body = Unparsable
                 THEN EmptyObject ELSE gcall.opOut.error.body)

\* getVerification: the first response is 401, the refresh succeeds, the
\* retried response is 404, and the caller is thrown the ResponseError.
C15_Witness ==
    /\ RetryFailed
    /\ gcall.method = "getVerification"
    /\ gcall.nOp = 2 /\ gcall.nReauth = 1 /\ gcall.nAuth = 1
    /\ gcall.opOut = OperationFailed(404, "Not Found", [message |-> "not found"])
    /\ gcall.result = Thrown(ResponseError(404, "Not Found", [message |-> "not found"]))

\* C16 as stated: in the generated client, one call of any public method,
\* listFlows and getFlow included, invokes its endpoint operation at most
\* twice and re-authenticates at most once.
C16_AsStated ==
    /\ gcall.nOp <= 2
    /\ gcall.nReauth <= 1

\* listFlows, every response 401: four invocations, three refreshes.
C16_Witness ==
    /\ gcall.pc = "done"
    /\ gcall.method = "listFlows"
    /\ gcall.nOp = 4
    /\ gcall.nReauth = 3
    /\ gcall.opOut = OperationFailed(401, "Unauthorized", [message |-> "token expired"])
    /\ gcall.result = Thrown(ResponseError(401, "Unauthorized", [message |-> "token expired"]))

\* C17: in every state, whatever the interleaving of the calls, the token
\* and the expiry of an instance are both set or both unset, and when set
\* they are the access_token and the expires_at of one authenticate
\* response, the latest one accepted.
C17_TokenAndExpiryPaired ==
    \A i \in Instances :
        /\ token[i] = Undefined <=> tokenExpiry[i] = UndefinedDate
        /\ token[i] # Undefined =>
                LET g == seq[i].lastGood
                IN  /\ g.resp # NoResponse
                    /\ token[i] = g.resp.data.access_token
                    /\ tokenExpiry[i] = DateOfField(g.resp.data.expires_at)

\* Call 1 has cleared the cache after a 401 and waits for authenticate;
\* meanwhile the response of call 2 has filled the cache, and call 1 had
\* stored another pair before.
C17_Witness ==
    /\ calls[1].pc = "authWait" /\ calls[1].nInval = 1
    /\ calls[1].fnReq1 = [headers |-> [Authorization |-> "Bearer tokB"]]
    /\ calls[1].at1.nAuth = 1
    /\ calls[2].pc = "fnWait" /\ calls[2].attempt = 1
    /\ seq[1].lastGood.by = 2
    /\ token[1] = "tokA"
    /\ tokenExpiry[1] = ValidDate(6 * MinuteMs)

\* The cache of instance i, and the cache call record cr began with when
\* cr made no retry: the one its first getAccessToken found.
CacheOf(i) == [tok |-> token[i], exp |-> tokenExpiry[i]]
BeganWith(cr) == [tok |-> cr.saw.tok, exp |-> cr.saw.exp]

\* The step changes the cache of instance i.
CacheChanges(i) == token'[i] # token[i] \/ tokenExpiry'[i] # tokenExpiry[i]

\* The step is call c's getAccessToken accepting an authenticate response
\* and storing its pair.
SetsFromResponse(c, i) ==
    /\ calls[c].inst = i /\ calls[c].pc = "authWait"
    /\ AuthComplete(calls'[c].authResp)
    /\ token'[i] = calls'[c].authResp.data.access_token
    /\ tokenExpiry'[i] = DateOfField(calls'[c].authResp.data.expires_at)

\* The step is call c's catch block handling a 401: lines 115-116.
ClearsOn401(c, i) ==
    /\ calls[c].inst = i /\ calls[c].attempt = 1
    /\ calls'[c].nInval = calls[c].nInval + 1
    /\ token'[i] = Undefined
    /\ tokenExpiry'[i] = UndefinedDate

\* The cache changes only in those two steps.
OnlySetAndClear ==
    \A i \in Instances :
        CacheChanges(i) => \E c \in CallIds : SetsFromResponse(c, i) \/ ClearsOn401(c, i)

EndedInSuccessWithoutRefresh(cr) ==
    cr.pc = "done" /\ cr.result.kind = "return" /\ cr.nAuth = 0
EndedInOtherError(cr) ==
    /\ cr.pc = "done" /\ cr.result.kind = "throw"
    /\ cr.result.error.class = "VouchsafeApiError"
    /\ cr.result.error.statusCode # 401
EndedInTransportError(cr) ==
    cr.pc = "done" /\ cr.result.kind = "throw" /\ cr.fnOut.kind = "rejected"

\* C18 as stated: the cache changes only when an authenticate response is
\* accepted (set) and when a 401 is handled (clear); and a call that ends in
\* success without a refresh, in a non-401 error, or in a transport error
\* thrown by the wrapped function leaves the cache as it was before the call
\* (compared for the calls that made no retry).
C18_AsStated ==
    /\ [][OnlySetAndClear]_vars
    /\ [](\A c \in CallIds :
            (/\ calls[c].attempt = 1
             /\ \/ EndedInSuccessWithoutRefresh(calls[c])
                \/ EndedInOtherError(calls[c])
                \/ EndedInTransportError(calls[c])) =>
                CacheOf(calls[c].inst) = BeganWith(calls[c]))

\* Call record cr ended without an accepted authenticate response and
\* without a 401 handled.
NoSetNoClear(cr) ==
    /\ cr.pc = "done"
    /\ cr.nInval = 0
    /\ cr.nAuth = 0 \/ ~AuthComplete(cr.authResp)

\* C18, amended: the cache changes only in those two steps; a call in which
\* neither happened, however it ends, leaves the cache as it was before the
\* call, and every other call leaves what its last such step left.
C18_CacheChangesOnlyBySetAndClear ==
    /\ [][OnlySetAndClear]_vars
    /\ [](\A c \in CallIds :
            /\ NoSetNoClear(calls[c]) => CacheOf(calls[c].inst) = BeganWith(calls[c])
            /\ (calls[c].pc = "done" /\ ~NoSetNoClear(calls[c])) =>
                    \/ /\ AuthComplete(calls[c].authResp)
                       /\ CacheOf(calls[c].inst) =
                            [tok |-> calls[c].authResp.data.access_token,
                             exp |-> DateOfField(calls[c].authResp.data.expires_at)]
                    \/ /\ ~AuthComplete(calls[c].authResp)
                       /\ calls[c].nInval = 1
                       /\ CacheOf(calls[c].inst) = NoCache)

\* A call that found a token in its window, was answered 404 and threw:
\* the cache is the one it began with.
C18_Witness ==
    /\ NoSetNoClear(calls[1])
    /\ calls[1].nAuth = 0
    /\ calls[1].result.kind = "throw"
    /\ calls[1].result.error.class = "VouchsafeApiError"
    /\ calls[1].result.error.statusCode = 404
    /\ BeganWith(calls[1]) = [tok |-> "tokB", exp |-> ValidDate(8 * MinuteMs)]
    /\ token[1] = "tokB"

\* C19 as stated: the catch block's retry path is entered only after the
\* wrapped endpoint call itself returned 401; when authenticate fails in the
\* first attempt, with 401 or any other status that is not 201, the call
\* throws with one authenticate call made and the endpoint function never
\* invoked.
C19_AsStated ==
    \A c \in CallIds :
        /\ calls[c].nInval >= 1 => Is401(calls[c].fn1)
        /\ (calls[c].pc = "done" /\ calls[c].attempt = 1
                /\ calls[c].authResp.kind = "resolved"
                /\ calls[c].authResp.status # 201) =>
                /\ calls[c].result.kind = "throw"
                /\ calls[c].nAuth = 1
                /\ calls[c].nFn = 0

\* The first authenticate call was answered 401; the call cleared the
\* cache, authenticated a second time, invoked the endpoint and returned.
C19_Witness ==
    /\ calls[1].pc = "done"
    /\ calls[1].result.kind = "return"
    /\ calls[1].nInval = 1
    /\ calls[1].nAuth = 2
    /\ calls[1].nFn = 1
    /\ calls[1].fn1Attempt = 2
    /\ calls[1].at1.nAuth = 2

\* The step is the first attempt of call c receiving 401 from its endpoint.
Receives401(c) ==
    /\ calls[c].pc = "fnWait"
    /\ calls[c].attempt = 1
    /\ Steps(c)
    /\ Is401(calls'[c].fnOut)

\* C20: when the first attempt of a call receives 401 from its endpoint,
\* the token and the expiry are cleared whatever the cache holds at that
\* moment, a token stored since by a concurrent call included, and the
\* retry issues a new authenticate call in the same step.
C20_InvalidationUnconditional ==
    [][\A c \in CallIds :
        Receives401(c) =>
            LET i == calls[c].inst
            IN  /\ token'[i] = Undefined
                /\ tokenExpiry'[i] = UndefinedDate
                /\ calls'[c].pc = "authWait"
                /\ calls'[c].nAuth = calls[c].nAuth + 1
                /\ calls'[c].authResp = NoResponse]_vars

\* Call 1 sent tokB; call 2 stored tokA after that and still waits for its
\* endpoint; call 1 has received 401, and the cache is empty.
C20_Witness ==
    /\ calls[1].pc = "authWait" /\ calls[1].nInval = 1 /\ calls[1].nAuth = 2
    /\ calls[1].authResp = NoResponse
    /\ calls[1].fnReq1 = [headers |-> [Authorization |-> "Bearer tokB"]]
    /\ Is401(calls[1].fn1)
    /\ calls[2].pc = "fnWait" /\ calls[2].attempt = 1
    /\ calls[2].fnReq = [headers |-> [Authorization |-> "Bearer tokA"]]
    /\ seq[1].lastGood.by = 2
    /\ token[1] = Undefined
    /\ tokenExpiry[1] = UndefinedDate

\* The step is call c being handed a rejection by its endpoint function or
\* by authenticate.
RejectionArrives(c) ==
    /\ Steps(c)
    /\ \/ calls[c].pc = "fnWait" /\ calls'[c].fnOut.kind = "rejected"
       \/ calls[c].pc = "authWait" /\ calls'[c].authResp.kind = "rejected"

\* The rejection that arrived in that step.
ArrivedRejection(c) ==
    IF calls[c].pc = "fnWait" THEN calls'[c].fnOut.error ELSE calls'[c].authResp.error

\* The same for the generated client: a rejection that is no ResponseError.
GeneratedRejectionArrives ==
    /\ gcall' # gcall
    /\ \/ /\ gcall.pc = "opWait"
          /\ gcall'.opOut.kind = "rejected"
          /\ gcall'.opOut.error.class # "ResponseError"
       \/ /\ gcall.pc \in {"hookWait", "reauthWait"}
          /\ gcall'.authOut.kind = "rejected"
          /\ gcall'.authOut.error.class # "ResponseError"

\* C21: a transport-level error thrown by the wrapped endpoint function or by
\* authenticate ends the call in the same step with that very error thrown,
\* not a VouchsafeApiError; the step clears nothing, issues no authenticate
\* call and invokes the endpoint no more.  In both variants of the client.
C21_TransportErrorPropagates ==
    [][/\ \A c \in CallIds :
            RejectionArrives(c) =>
                /\ calls'[c].pc = "done"
                /\ calls'[c].result = [kind |-> "throw", error |-> ArrivedRejection(c)]
                /\ calls'[c].result.error.class # "VouchsafeApiError"
                /\ calls'[c].nInval = calls[c].nInval
                /\ calls'[c].nAuth = calls[c].nAuth
                /\ calls'[c].nFn = calls[c].nFn
                /\ token' = token /\ tokenExpiry' = tokenExpiry
       /\ GeneratedRejectionArrives =>
                /\ gcall'.pc = "done"
                /\ gcall'.result = [kind |-> "throw", error |->
                        IF gcall.pc = "opWait" THEN gcall'.opOut.error
                                               ELSE gcall'.authOut.error]
                /\ gcall'.result.error.class # "VouchsafeApiError"
                /\ gcall'.nInval = gcall.nInval
                /\ gcall'.nAuth = gcall.nAuth
                /\ gcall'.nOp = gcall.nOp
                /\ token' = token /\ tokenExpiry' = tokenExpiry]_vars

\* The retry of a call of part_001 was rejected: the call threw the
\* TypeError, with the one invalidation of the 401 before it.
C21_Witness ==
    /\ calls[1].pc = "done"
    /\ calls[1].fnOut = Rejected
    /\ calls[1].nFn = 2 /\ calls[1].nInval = 1 /\ calls[1].nAuth = 1
    /\ calls[1].result = Thrown(TransportError)
    /\ token[1] = "tokA"

\* The same on the generated client, wrapped twice.
C21_WitnessGenerated ==
    /\ gcall.pc = "done"
    /\ gcall.method = "listFlows"
    /\ gcall.opOut = OperationRejected
    /\ gcall.nOp = 2 /\ gcall.nInval = 1
    /\ gcall.result = Thrown(TransportError)

\* Call record cr met no failure: no authenticate call of it failed and its
\* one endpoint invocation succeeded.
NoFailure(cr) ==
    /\ cr.nInval = 0
    /\ cr.nFn = 1
    /\ cr.nAuth = 0 \/ AuthComplete(cr.authResp)
    /\ cr.fnOut.kind = "resolved" /\ cr.fnOut.status \in {200, 201}

\* The one failure of call record cr was the 401 its first attempt received
\* from the endpoint, and the retry succeeded.
Only401ThenRetried(cr) ==
    /\ cr.nInval = 1
    /\ cr.fn1Attempt = 1 /\ Is401(cr.fn1)
    /\ cr.nAuth - cr.at1.nAuth = 1 /\ AuthComplete(cr.authResp)
    /\ cr.nFn = 2
    /\ cr.fnOut.kind = "resolved" /\ cr.fnOut.status \in {200, 201}

\* C22 as stated: a public call returns normally only when nothing failed or
\* when its one failure was a first-attempt 401 of the endpoint followed by
\* a successful retry, and it then returns the payload of the last response;
\* after any other failure (of authenticate, a non-401 status, a failed
\* retry) it throws.
C22_AsStated ==
    \A c \in CallIds :
        (calls[c].pc = "done" /\ calls[c].result.kind = "return") =>
            /\ NoFailure(calls[c]) \/ Only401ThenRetried(calls[c])
            /\ calls[c].result.value = calls[c].fnOut.data

\* The first authenticate call failed with 401, the second succeeded, the
\* endpoint answered 201, and the call returned its payload.
C22_Witness ==
    /\ calls[1].pc = "done"
    /\ calls[1].result = Returned([id |-> "p1"])
    /\ calls[1].fnOut = Resolved(201, [id |-> "p1"])
    /\ calls[1].nAuth = 2 /\ calls[1].nInval = 1 /\ calls[1].nFn = 1
    /\ ~Is401(calls[1].fn1)
    /\ token[1] = "tokA"

\* What C22 comes to apart from that path: a call that returns met no
\* failure but 401s that were retried.
C22_ReturnsOnlyAfterRecovered401 ==
    \A c \in CallIds :
        (calls[c].pc = "done" /\ calls[c].result.kind = "return") =>
            /\ \/ NoFailure(calls[c])
               \/ Only401ThenRetried(calls[c])
               \/ /\ calls[c].fn1Attempt = 2
                  /\ calls[c].nAuth = 2 /\ calls[c].nInval = 1 /\ calls[c].nFn = 1
                  /\ AuthComplete(calls[c].authResp)
            /\ calls[c].result.value = calls[c].fnOut.data

\* The generated client's call ended on an endpoint response with an error
\* status other than 401 whose body could not be read.
EndedOnUnreadableBody ==
    /\ gcall.pc = "done"
    /\ gcall.opOut.kind = "rejected"
    /\ gcall.opOut.error.class = "ResponseError"
    /\ gcall.opOut.error.status # 401
    /\ gcall.opOut.error.body = Unparsable

\* C23 as stated: in the generated client, when an endpoint call fails with
\* an error status other than 401 and the body of the response cannot be
\* read, the caller receives a VouchsafeApiError with that status, an empty
\* object as responseBody and the response's status text as message.
C23_AsStated ==
    EndedOnUnreadableBody =>
        /\ gcall.result.kind = "throw"
        /\ gcall.result.error.class = "VouchsafeApiError"
        /\ gcall.result.error.statusCode = gcall.opOut.error.status
        /\ gcall.result.error.responseBody = EmptyObject
        /\ gcall.result.error.message = gcall.opOut.error.statusText

\* getVerification: 401, a successful refresh, then 500 with an unreadable
\* body on the retry: the caller is thrown the ResponseError.
C23_Witness ==
    /\ EndedOnUnreadableBody
    /\ gcall.method = "getVerification"
    /\ gcall.nOp = 2 /\ gcall.nReauth = 1
    /\ gcall.result.kind = "throw"
    /\ gcall.result.error.class = "ResponseError"
    /\ gcall.result.error.status = 500

\* What C23 comes to for the calls whose failing invocation followed no 401.
C23_FirstFailureTranslated ==
    (EndedOnUnreadableBody /\ ~gcall.opAfter401) =>
        gcall.result = [kind |-> "throw", error |->
            [class |-> "VouchsafeApiError", name |-> "VouchsafeApiError",
             statusCode |-> gcall.opOut.error.status,
             responseBody |-> EmptyObject,
             message |-> gcall.opOut.error.statusText]]

\* C24: when every authenticate call and every endpoint invocation ends, a
\* public call in progress eventually completes, and no call makes more
\* than two endpoint invocations or more than two authenticate calls,
\* whatever the responses, 401 on every attempt included.
C24_CallCompletes ==
    /\ [](\A c \in CallIds : calls[c].nFn <= 2 /\ calls[c].nAuth <= 2)
    /\ \A c \in CallIds :
            (calls[c].pc \in {"authWait", "fnWait"}) ~> (calls[c].pc = "done")

\* A call that authenticated, was answered 401, authenticated again and was
\* answered 401 again: it ended, thrown the second 401.
C24_Witness ==
    /\ calls[1].pc = "done"
    /\ calls[1].nFn = 2 /\ calls[1].nAuth = 2 /\ calls[1].nInval = 1
    /\ Is401(calls[1].fn1) /\ Is401(calls[1].fnOut)
    /\ calls[1].result.kind = "throw"
    /\ calls[1].result.error.statusCode = 401

\* The first attempt of call record cr received 401 from the endpoint, and
\* the authenticate call that followed the invalidation failed.
ReauthFailed(cr) ==
    /\ cr.pc = "done"
    /\ cr.fn1Attempt = 1 /\ Is401(cr.fn1)
    /\ cr.nInval = 1
    /\ cr.nAuth = cr.at1.nAuth + 1
    /\ cr.authResp # NoResponse
    /\ ~AuthComplete(cr.authResp)

\* The error getAccessToken throws for the failed authenticate outcome r.
AuthenticationError(r) ==
    IF r.kind = "rejected"
    THEN r.error
    ELSE [class |-> "VouchsafeApiError", name |-> "VouchsafeApiError",
          statusCode |-> r.status, responseBody |-> r.data,
          message |-> IF r.status # 201
                      THEN "Authentication failed"
                      ELSE "Authentication response missing token or expiry"]

\* C25: when the first attempt received 401 from the endpoint and the
\* authenticate call after the invalidation fails, the endpoint function is
\* not invoked a second time, the caller is thrown the error of that
\* authenticate call, not the endpoint's 401, and the instance holds no
\* token and no expiry.
C25_FailedReauthSurfaces ==
    \A c \in CallIds :
        ReauthFailed(calls[c]) =>
            /\ calls[c].nFn = 1
            /\ calls[c].result = [kind |-> "throw",
                                  error |-> AuthenticationError(calls[c].authResp)]
            /\ calls[c].result.error #
                    [class |-> "VouchsafeApiError", name |-> "VouchsafeApiError",
                     statusCode |-> 401, responseBody |-> calls[c].fn1.data,
                     message |-> calls[c].result.error.message]
            /\ token[calls[c].inst] = Undefined
            /\ tokenExpiry[calls[c].inst] = UndefinedDate

\* A call that found tokA in its window, was answered 401, and whose
\* authenticate call was answered 200: thrown "Authentication failed".
C25_Witness ==
    /\ ReauthFailed(calls[1])
    /\ calls[1].fnReq1 = [headers |-> [Authorization |-> "Bearer tokA"]]
    /\ calls[1].at1.nAuth = 0
    /\ calls[1].authResp.kind = "resolved" /\ calls[1].authResp.status = 200
    /\ calls[1].result.error.message = "Authentication failed"
    /\ calls[1].result.error.statusCode = 200
    /\ token[1] = Undefined

\* Call record cr ended by throwing a VouchsafeApiError of status 401.
Surfaced401(cr) ==
    /\ cr.pc = "done"
    /\ cr.result.kind = "throw"
    /\ cr.result.error.class = "VouchsafeApiError"
    /\ cr.result.error.statusCode = 401

\* C26 as stated: for one instance used one call at a time, against a server
\* whose authenticate always succeeds and whose endpoints answer 401 exactly
\* when the token presented is not the most recently issued one, no call
\* ends by throwing a 401 error.
C26_AsStated ==
    \A c \in CallIds : ~Surfaced401(calls[c])

\* The token the server issued last to the credentials of call record cr is
\* no longer the one the call's own authenticate response carried.
Superseded(cr) ==
    /\ cr.authResp # NoResponse
    /\ AuthComplete(cr.authResp)
    /\ issued[cr.authReq] # cr.authResp.data.access_token

\* C26, amended: against that server a call ends by throwing a 401 error
\* only if it invoked the endpoint twice, authenticated once after the
\* invalidation, presented the token of that authenticate response at the
\* retry, and that token had already been superseded by a token issued to
\* another holder of the credentials; a token that went stale before the
\* first endpoint response is recovered by the one retry.
C26_Surfaces401OnlyIfSupersededDuringRetry ==
    \A c \in CallIds :
        /\ Surfaced401(calls[c]) =>
              /\ calls[c].nFn = 2 /\ calls[c].nInval = 1
              /\ Is401(calls[c].fn1) /\ Is401(calls[c].fnOut)
              /\ calls[c].nAuth = calls[c].at1.nAuth + 1
              /\ calls[c].fnReq = authHeaders(calls[c].authResp.data.access_token)
              /\ Superseded(calls[c])
              /\ issued[calls[c].authReq] = OtherToken
        /\ (calls[c].pc = "done" /\ Is401(calls[c].fn1) /\ ~Superseded(calls[c])) =>
              /\ calls[c].nFn = 2
              /\ ~Is401(calls[c].fnOut)
              /\ ~Surfaced401(calls[c])

\* The second call of the instance found its cached token in the window,
\* the token had been superseded while the instance was idle, the endpoint
\* answered 401, and the retry with a newly issued token returned.
C26_Witness ==
    /\ seq[1].calls = 2
    /\ calls[1].pc = "done"
    /\ calls[1].at1.nAuth = 0
    /\ Is401(calls[1].fn1)
    /\ calls[1].nAuth = 1 /\ calls[1].nFn = 2 /\ calls[1].nInval = 1
    /\ ~Superseded(calls[1])
    /\ calls[1].result.kind = "return"

\* A call whose newly issued token was superseded before the retry was
\* answered: the caller is thrown the 401 of the retry.
C26_WitnessSuperseded ==
    /\ Surfaced401(calls[1])
    /\ calls[1].nFn = 2 /\ calls[1].nAuth = calls[1].at1.nAuth + 1
    /\ issued[options[1]] = OtherToken

====
